---- MODULE Spec2Model ----
(***************************************************************************)
(* A model of pennylane/gradients/finite_difference.py (the stencil        *)
(* generator, the shifted-tape builder, the finite-difference driver and   *)
(* its post-processing closure) and of pennylane/interfaces/batch/         *)
(* unwrap.py (the UnwrapTape context manager and batch_vjp).               *)
(*                                                                         *)
(* Floating-point numbers are modelled as exact rationals <<num, den>>     *)
(* with den > 0 in lowest terms; rounding error of the float arithmetic is *)
(* outside the model.                                                      *)
(***************************************************************************)
EXTENDS Integers, Sequences, FiniteSets, TLC

(***************************************************************************)
(* Bounds of the model.                                                    *)
(***************************************************************************)
MaxN == 3
MaxOrder == 2
MaxParams == 2
MaxOutDim == 2
MaxTapes == 2
MaxVjpParams == 2
MaxCallTapes == 2
MaxDepth == 2
MaxNest == 3
MaxWrapped == 2

(***************************************************************************)
(* Exact rational arithmetic (the float64 values of the code).             *)
(***************************************************************************)
Abs(x) == IF x < 0 THEN -x ELSE x

RECURSIVE GCD(_, _)
GCD(a, b) == IF b = 0 THEN a ELSE GCD(b, a % b)

RNorm(n, d) ==
    LET g == GCD(Abs(n), d) IN <<n \div g, d \div g>>

RInt(i) == <<i, 1>>
RZero == <<0, 1>>
RNeg(a) == <<-a[1], a[2]>>
RAdd(a, b) ==
    LET g == GCD(a[2], b[2])
    IN  RNorm(a[1] * (b[2] \div g) + b[1] * (a[2] \div g), (a[2] \div g) * b[2])
RSub(a, b) == RAdd(a, RNeg(b))
RMul(a, b) ==
    LET g1 == GCD(Abs(a[1]), b[2])
        g2 == GCD(Abs(b[1]), a[2])
    IN  IF a[1] = 0 \/ b[1] = 0 THEN RZero
        ELSE <<(a[1] \div g1) * (b[1] \div g2), (a[2] \div g2) * (b[2] \div g1)>>
RInv(a) == IF a[1] < 0 THEN <<-a[2], -a[1]>> ELSE <<a[2], a[1]>>
RDiv(a, b) == RMul(a, RInv(b))
RAbs(a) == <<Abs(a[1]), a[2]>>
RLess(a, b) == a[1] * b[2] < b[1] * a[2]

RECURSIVE RPow(_, _)
RPow(a, k) == IF k = 0 THEN RInt(1) ELSE RMul(a, RPow(a, k - 1))

RECURSIVE IPow(_, _)
IPow(x, k) == IF k = 0 THEN 1 ELSE x * IPow(x, k - 1)

RECURSIVE Factorial(_)
Factorial(k) == IF k <= 0 THEN 1 ELSE k * Factorial(k - 1)

RECURSIVE RSum(_)
RSum(s) == IF s = <<>> THEN RZero ELSE RAdd(Head(s), RSum(Tail(s)))

RECURSIVE ISum(_)
ISum(s) == IF s = <<>> THEN 0 ELSE Head(s) + ISum(Tail(s))

(***************************************************************************)
(* finite_diff_stencil (finite_difference.py, lines 25-87).                *)
(*                                                                         *)
(* A Python number argument is [isint, twice]: its value is twice/2 and    *)
(* isint says whether isinstance(x, int) holds (the float 1.0 is           *)
(* [isint |-> FALSE, twice |-> 2]).                                        *)
(***************************************************************************)
PyInt(k) == [isint |-> TRUE, twice |-> 2 * k]
PyFloat(t) == [isint |-> FALSE, twice |-> t]
Val(x) == x.twice \div 2

Forms == {"forward", "backward", "center", "sideways"}

\* mutant of CheckArgs: the parity check of the centred form is missing
CheckArgs_noparity(n, order, form) ==
    IF n.twice < 2 \/ ~n.isint
    THEN "Derivative order n must be a positive integer."
    ELSE IF order.twice < 2 \/ ~order.isint
    THEN "Accuracy order must be a positive integer."
    ELSE IF form \in {"forward", "backward", "center"} THEN "ok"
    ELSE "Unknown form"

\* lines 53-57 and 62-76: the checks, in the order the code makes them
CheckArgs(n, order, form) ==
    IF n.twice < 2 \/ ~n.isint
    THEN "Derivative order n must be a positive integer."
    ELSE IF order.twice < 2 \/ ~order.isint
    THEN "Accuracy order must be a positive integer."
    ELSE IF form = "forward" \/ form = "backward" THEN "ok"
    ELSE IF form = "center"
    THEN IF Val(order) % 2 # 0
         THEN "Centered finite-difference requires an even order."
         ELSE "ok"
    ELSE "Unknown form"

\* line 59
NumPoints(n, order) == order + 2 * ((n + 1) \div 2) - 1

\* line 60
StencilN(n, order) ==
    IF n % 2 = 0 THEN NumPoints(n, order) + 1 ELSE NumPoints(n, order)

\* np.arange(lo, hi): lo, lo+1, ..., hi-1
Arange(lo, hi) == [i \in 1..(IF hi > lo THEN hi - lo ELSE 0) |-> lo + i - 1]

\* lines 62-73
ShiftSet(n, order, form) ==
    IF form = "forward" THEN Arange(0, StencilN(n, order))
    ELSE IF form = "backward" THEN Arange(-StencilN(n, order) + 1, 1)
    ELSE LET half == NumPoints(n, order) \div 2
         IN  Arange(-half, half + 1)

\* line 78: A[i][j] = shifts[j] ** i, i = 0 .. len(shifts)-1 (0 ** 0 = 1)
Vandermonde(shifts) ==
    [i \in 1..Len(shifts) |-> [j \in 1..Len(shifts) |-> RInt(IPow(shifts[j], i - 1))]]

\* mutant of TargetB: the factorial is written one entry early
TargetB_early(len, n) == [i \in 1..len |-> IF i = n THEN RInt(Factorial(n)) ELSE RZero]

\* lines 79-80: b = zeros; b[n] = n!   (index n is 0-based: position n+1);
\* an index outside the vector is numpy's IndexError
TargetIndexOk(len, n) == n + 1 <= len

TargetB(len, n) == [i \in 1..len |-> IF i = n + 1 THEN RInt(Factorial(n)) ELSE RZero]

(***************************************************************************)
(* np.linalg.solve (line 81): LU elimination with partial pivoting on the  *)
(* augmented matrix, then back substitution; <<>> stands for LinAlgError   *)
(* (a singular matrix).                                                    *)
(***************************************************************************)
Augment(A, b) == [i \in 1..Len(A) |-> Append(A[i], b[i])]

\* first row r >= k whose |M[r][k]| is largest
PivotRow(M, k) ==
    CHOOSE r \in k..Len(M) :
        /\ \A q \in k..Len(M) : ~RLess(RAbs(M[r][k]), RAbs(M[q][k]))
        /\ \A q \in k..(r - 1) : RLess(RAbs(M[q][k]), RAbs(M[r][k]))

SwapRows(M, a, b) ==
    [i \in 1..Len(M) |-> IF i = a THEN M[b] ELSE IF i = b THEN M[a] ELSE M[i]]

RowSubMul(row, prow, f) ==
    [j \in 1..Len(row) |-> RSub(row[j], RMul(f, prow[j]))]

EliminateBelow(M, k) ==
    [i \in 1..Len(M) |->
        IF i <= k THEN M[i]
        ELSE RowSubMul(M[i], M[k], RDiv(M[i][k], M[k][k]))]

RECURSIVE ForwardElim(_, _)
ForwardElim(M, k) ==
    IF k > Len(M) THEN M
    ELSE LET p == PivotRow(M, k)
         IN  IF M[p][k] = RZero THEN <<>>
             ELSE ForwardElim(EliminateBelow(SwapRows(M, k, p), k), k + 1)

RECURSIVE BackSub(_, _, _)
BackSub(M, i, x) ==
    IF i = 0 THEN x
    ELSE LET m == Len(M)
             tail == RSum([j \in 1..(m - i) |-> RMul(M[i][i + j], x[i + j])])
             xi == RDiv(RSub(M[i][m + 1], tail), M[i][i])
         IN  BackSub(M, i - 1, [x EXCEPT ![i] = xi])

Solve(A, b) ==
    LET U == ForwardElim(Augment(A, b), 1)
    IN  IF U = <<>> THEN <<>>
        ELSE BackSub(U, Len(A), [i \in 1..Len(A) |-> RZero])

\* line 84: |c| < 1e-10 becomes 0.  |num| * 10^10 < den, computed without
\* leaving the machine integers.
IsTiny(c) == Abs(c[1]) <= ((c[2] - 1) \div 100000) \div 100000
ZeroTiny(coeffs) == [i \in 1..Len(coeffs) |-> IF IsTiny(coeffs[i]) THEN RZero ELSE coeffs[i]]

\* line 85: drop the columns that are entirely zero
RECURSIVE KeepIdx(_, _, _)
KeepIdx(coeffs, shifts, i) ==
    IF i > Len(coeffs) THEN <<>>
    ELSE IF coeffs[i] = RZero /\ shifts[i] = 0
         THEN KeepIdx(coeffs, shifts, i + 1)
         ELSE <<i>> \o KeepIdx(coeffs, shifts, i + 1)

\* line 86: np.argsort(|shifts|); on the short arrays of a stencil numpy
\* sorts by insertion, which keeps equal keys in their order
RECURSIVE InsertIdx(_, _, _)
InsertIdx(sorted, i, key) ==
    IF sorted = <<>> THEN <<i>>
    ELSE IF Abs(key[i]) < Abs(key[Head(sorted)]) THEN <<i>> \o sorted
    ELSE <<Head(sorted)>> \o InsertIdx(Tail(sorted), i, key)

RECURSIVE ArgsortAbs(_, _)
ArgsortAbs(key, k) ==
    IF k = 0 THEN <<>> ELSE InsertIdx(ArgsortAbs(key, k - 1), k, key)

Pick(s, idx) == [i \in 1..Len(idx) |-> s[idx[i]]]

\* lines 83-87
CleanStencil(coeffs, shifts) ==
    LET c1 == ZeroTiny(coeffs)
        keep == KeepIdx(c1, shifts, 1)
        c2 == Pick(c1, keep)
        s2 == Pick(shifts, keep)
        perm == ArgsortAbs(s2, Len(s2))
    IN  [coeffs |-> Pick(c2, perm), shifts |-> Pick(s2, perm)]

\* the whole function: [err |-> message] or [coeffs, shifts]
finite_diff_stencil(n, order, form) ==
    LET chk == CheckArgs(n, order, form) IN
    IF chk # "ok" THEN [err |-> chk]
    ELSE LET shifts == ShiftSet(Val(n), Val(order), form) IN
         IF ~TargetIndexOk(Len(shifts), Val(n)) THEN [err |-> "IndexError"]
         ELSE LET x == Solve(Vandermonde(shifts), TargetB(Len(shifts), Val(n))) IN
              IF x = <<>> THEN [err |-> "LinAlgError"]
              ELSE CleanStencil(x, shifts)

(***************************************************************************)
(* Vectors of rationals (one measurement result, one gradient column).     *)
(***************************************************************************)
VZero(m) == [d \in 1..m |-> RZero]
VAdd(u, v) == [d \in 1..Len(u) |-> RAdd(u[d], v[d])]
VScale(c, v) == [d \in 1..Len(v) |-> RMul(c, v[d])]
VDiv(v, c) == [d \in 1..Len(v) |-> RDiv(v[d], c)]

\* Python's seq[a:b] for 0 <= a <= b (0-based, clipped to the sequence)
Slice(seq, a, b) ==
    LET hi == IF b < Len(seq) THEN b ELSE Len(seq)
    IN  [i \in 1..(IF hi > a THEN hi - a ELSE 0) |-> seq[a + i]]

(***************************************************************************)
(* The input program (tape) of finite_diff, external to the two files:     *)
(*   params      the values of its trainable parameters                    *)
(*   methods     tape._grad_method_validation("numeric"), one of "F", "0"  *)
(*               for every trainable parameter                             *)
(*   output_dim  tape.output_dim                                           *)
(* A program of the batch is [params, copy]: copy is FALSE for the tape    *)
(* object itself and TRUE for a tape.copy().                               *)
(***************************************************************************)
Methods == {"F", "0"}

\* the programs tried: up to MaxParams trainable parameters with the values
\* 1, 2, ..., every classification of them, and output_dim up to MaxOutDim
TapeInputs ==
    { [params |-> [j \in 1..Len(m) |-> RInt(j)], methods |-> m, output_dim |-> od] :
        m \in UNION {[1..k -> Methods] : k \in 0..MaxParams},
        od \in 1..MaxOutDim }

NoTape == [params |-> <<>>, methods |-> <<>>, output_dim |-> 0]

\* tape._grad_method_validation("numeric")
grad_method_validation(t) == t.methods

\* argnum: None, or a list of trainable indices (0-based, ascending)
ArgNone == [none |-> TRUE, idx |-> <<>>]
ArgList(s) == [none |-> FALSE, idx |-> s]

RECURSIVE AscendingSeqs(_, _)
AscendingSeqs(lo, hi) ==
    IF lo > hi THEN {<<>>}
    ELSE AscendingSeqs(lo + 1, hi)
         \cup {<<lo>> \o s : s \in AscendingSeqs(lo + 1, hi)}

ArgnumInputs(k) == {ArgNone} \cup {ArgList(s) : s \in AscendingSeqs(0, k - 1)}

\* tape._choose_params_with_methods(diff_methods, argnum): the pairs
\* (t_idx, method) of the selected trainable parameters, in parameter order
choose_params_with_methods(diff_methods, a) ==
    IF a.none
    THEN [i \in 1..Len(diff_methods) |-> <<i - 1, diff_methods[i]>>]
    ELSE [i \in 1..Len(a.idx) |-> <<a.idx[i], diff_methods[a.idx[i] + 1]>>]

\* the step sizes h tried
HValues == {<<1, 2>>, <<2, 1>>}

\* the external executor: the result of one program is a vector of
\* output_dim numbers, a function of the program's parameters
Devices == {"linear", "square"}
RunTape(dev, prog, od) ==
    [d \in 1..od |->
        RSum([j \in 1..Len(prog.params) |->
                 RMul(RInt(j + d),
                      IF dev = "linear" THEN prog.params[j]
                      ELSE RMul(prog.params[j], prog.params[j]))])]

(***************************************************************************)
(* generate_shifted_tapes (lines 90-118)                                   *)
(***************************************************************************)
\* mutant of ShiftedTape: the shift is added to every parameter
ShiftedTape_all(t, idx, s) ==
    [params |-> [j \in 1..Len(t.params) |-> RAdd(t.params[j], s)], copy |-> TRUE]

ShiftedTape(t, idx, s) ==
    [params |-> [j \in 1..Len(t.params) |->
                    RAdd(t.params[j], IF j = idx + 1 THEN s ELSE RZero)],
     copy |-> TRUE]

generate_shifted_tapes(t, idx, sh) ==
    [i \in 1..Len(sh) |-> ShiftedTape(t, idx, sh[i])]

\* shifts * h (line 185)
ScaleShifts(sh, hh) == [i \in 1..Len(sh) |-> RMul(RInt(sh[i]), hh)]

\* line 161
Degenerate(t) ==
    Len(t.params) = 0 \/ \A i \in 1..Len(t.methods) : grad_method_validation(t)[i] = "0"

\* line 164: np.zeros([tape.output_dim, len(tape.trainable_params)])
ZeroMatrix(rows, cols) == [d \in 1..rows |-> [j \in 1..cols |-> RZero]]

\* line 204: sum([c * r for c, r in zip(coeffs, res)])
RECURSIVE WeightedSum(_, _, _)
WeightedSum(cs, rs, m) ==
    IF cs = <<>> \/ rs = <<>> THEN VZero(m)
    ELSE VAdd(VScale(Head(cs), Head(rs)), WeightedSum(Tail(cs), Tail(rs), m))

\* mutant of NextStart: the cursor is not advanced
NextStart_stuck(st, s) == st

\* line 201
NextStart(st, s) == st + s

\* line 191
FirstStart(c) == IF c # <<>> THEN 1 ELSE 0

\* lines 200-209: the gradient of one enabled parameter
ParamGrad(results_, st, s, cs, c, hh, nn, od) ==
    LET r == Slice(results_, st, st + s)
        g == WeightedSum(cs, r, od)
        g0 == IF c # <<>> THEN VAdd(g, VScale(c, results_[1])) ELSE g
    IN  VDiv(g0, RPow(hh, nn))

\* line 221: qml.math.T(qml.math.stack(grads))
TransposeStack(gs) ==
    [d \in 1..Len(gs[1]) |-> [j \in 1..Len(gs) |-> gs[j][d]]]

(***************************************************************************)
(* State.  The variables carry the names of the code's locals.             *)
(***************************************************************************)
VARIABLES
    pc,              \* where the call is
    entry,           \* the function called: "finite_diff_stencil", "finite_diff"
    tape, argnum, h, order, n, form,      \* the arguments
    shifts, coeffs,  \* locals of finite_diff_stencil, then of finite_diff
    stencil,         \* what finite_diff_stencil returned
    c0,              \* <<>> is None
    gradient_tapes, shapes,
    todo,            \* what the loop of line 180 has still to visit
    degenerate,      \* the early return of line 164 was taken
    err,             \* the exception that ended the call ("" if none)
    results,         \* what the executor returned for gradient_tapes
    grads, start,
    res, res_bound,  \* processing_fn's local res, and whether it is bound
    pos,             \* how many entries of shapes the loop of line 193 has done
    jac              \* what processing_fn returned

fdVars == <<pc, entry, tape, argnum, h, order, n, form, shifts, coeffs, stencil,
            c0, gradient_tapes, shapes, todo, degenerate, err, results, grads,
            start, res, res_bound, pos, jac>>


(***************************************************************************)
(* State of batch_vjp (unwrap.py, lines 65-105).  Its locals               *)
(* gradient_tapes, results and start are the variables of those names      *)
(* above: one call is modelled at a time.                                  *)
(*   tapes           the programs: tapes[t] is len(tapes[t].trainable_params)*)
(*   dy              the cotangents, one matrix per program                *)
(*   gfn             the gradient_fn passed in (which family member)       *)
(*   fn_shape        what its post-processing functions return: 0 for a    *)
(*                   scalar, d >= 1 for a vector of d components           *)
(*   t, idx          the loop counters                                     *)
(*   calls           the calls made so far to gradient_fn, execute_fn and  *)
(*                   the post-processing functions, in order               *)
(***************************************************************************)
VARIABLES tapes, dy, gfn, fn_shape, reshape_info, processing_fns, vjps, t, idx, calls

bvVars == <<tapes, dy, gfn, fn_shape, reshape_info, processing_fns, vjps, t, idx,
            calls>>

BvIdle ==
    /\ tapes = <<>> /\ dy = <<>> /\ gfn = <<0, 0, 0>> /\ fn_shape = 0
    /\ reshape_info = <<>>
    /\ processing_fns = <<>> /\ vjps = <<>> /\ t = 0 /\ idx = 0 /\ calls = <<>>

(***************************************************************************)
(* State of UnwrapTape (unwrap.py, lines 20-62).                           *)
(*   utape      the tape: params (the full parameter list) and             *)
(*              trainable_params                                           *)
(*   unwrap_fn  the unwrap_fn the UnwrapTape objects were built with       *)
(*   objs       the UnwrapTape objects on the tape: _original_params and   *)
(*              _unwrapped_params (<<>> is None)                           *)
(*   active     the with-blocks that are open, innermost last              *)
(*   raising    an exception is propagating out of a body                  *)
(*   snaps, lastop, popped   history: for every open block the parameter   *)
(*              list at its entry and whether its object was entered again *)
(*              while the block was open; the last operation ("exit" for   *)
(*              a block whose object was not entered again, "exit_reused"  *)
(*              otherwise); the entry snapshot of the block left last      *)
(***************************************************************************)
VARIABLES utape, unwrap_fn, objs, active, raising, snaps, lastop, popped

uwVars == <<utape, unwrap_fn, objs, active, raising, snaps, lastop, popped>>

UwIdle ==
    /\ utape = [params |-> <<>>, trainable_params |-> {}]
    /\ unwrap_fn = "" /\ objs = <<>> /\ active = <<>> /\ raising = FALSE
    /\ snaps = <<>> /\ lastop = "" /\ popped = <<>>

vars == <<fdVars, bvVars, uwVars>>

NInputs == {PyInt(k) : k \in 0..MaxN} \cup {PyFloat(1), PyFloat(2)}
OrderInputs == {PyInt(k) : k \in 0..MaxOrder} \cup {PyFloat(1), PyFloat(4)}

FdLocalsInitOnly ==
    /\ argnum = ArgNone /\ h = <<1, 1>>
    /\ shifts = <<>> /\ coeffs = <<>> /\ stencil = [coeffs |-> <<>>, shifts |-> <<>>]
    /\ c0 = <<>> /\ shapes = <<>> /\ todo = <<>>
    /\ degenerate = FALSE /\ err = "" /\ grads = <<>>
    /\ res = <<>> /\ res_bound = FALSE /\ pos = 0 /\ jac = <<>>

FdLocalsInit ==
    /\ FdLocalsInitOnly /\ BvIdle /\ UwIdle
    /\ gradient_tapes = <<>> /\ results = <<>> /\ start = 0

\* a call finite_diff_stencil(n, order, form)
StencilInit ==
    /\ entry = "finite_diff_stencil" /\ pc = "st_check"
    /\ tape = NoTape
    /\ n \in NInputs /\ order \in OrderInputs /\ form \in Forms
    /\ FdLocalsInit

\* a call finite_diff(tape, argnum, h, order, n, form)
FdInit ==
    /\ entry = "finite_diff" /\ pc = "fd_start"
    /\ tape \in TapeInputs
    /\ n \in NInputs /\ order \in OrderInputs /\ form \in Forms
    /\ FdLocalsInit

(***************************************************************************)
(* finite_diff_stencil, step by step                                       *)
(***************************************************************************)
\* lines 53-76: the argument checks and the shift set
StCheck ==
    /\ pc = "st_check"
    /\ LET chk == CheckArgs(n, order, form) IN
       IF chk # "ok"
       THEN /\ pc' = "raised" /\ err' = chk /\ shifts' = shifts
       ELSE /\ pc' = "st_solve" /\ err' = err
            /\ shifts' = ShiftSet(Val(n), Val(order), form)
    /\ UNCHANGED <<entry, tape, argnum, h, order, n, form, coeffs, stencil, c0,
                   gradient_tapes, shapes, todo, degenerate, results, grads,
                   start, res, res_bound, pos, jac>>

\* lines 78-81: the Vandermonde system
StSolve ==
    /\ pc = "st_solve"
    /\ LET x == IF TargetIndexOk(Len(shifts), Val(n))
                THEN Solve(Vandermonde(shifts), TargetB(Len(shifts), Val(n)))
                ELSE <<>>
       IN  IF x = <<>>
           THEN /\ pc' = "raised" /\ coeffs' = coeffs
                /\ err' = IF TargetIndexOk(Len(shifts), Val(n))
                          THEN "LinAlgError" ELSE "IndexError"
           ELSE /\ pc' = "st_clean" /\ coeffs' = x /\ err' = err
    /\ UNCHANGED <<entry, tape, argnum, h, order, n, form, shifts, stencil, c0,
                   gradient_tapes, shapes, todo, degenerate, results, grads,
                   start, res, res_bound, pos, jac>>

\* lines 83-87, and for finite_diff the unpacking of line 170
StClean ==
    /\ pc = "st_clean"
    /\ stencil' = CleanStencil(coeffs, shifts)
    /\ IF entry = "finite_diff_stencil"
       THEN /\ pc' = "st_done" /\ UNCHANGED <<coeffs, shifts>>
       ELSE /\ pc' = "fd_zero"
            /\ coeffs' = stencil'.coeffs /\ shifts' = stencil'.shifts
    /\ UNCHANGED <<entry, tape, argnum, h, order, n, form, c0, gradient_tapes,
                   shapes, todo, degenerate, err, results, grads, start, res,
                   res_bound, pos, jac>>

(***************************************************************************)
(* finite_diff, step by step                                               *)
(***************************************************************************)
\* lines 159-168: the degenerate early return, else on to the stencil
FdValidate ==
    /\ pc = "fd_start"
    /\ IF Degenerate(tape)
       THEN /\ pc' = "fd_returned" /\ degenerate' = TRUE
       ELSE /\ pc' = "st_check" /\ degenerate' = FALSE
    /\ gradient_tapes' = <<>> /\ shapes' = <<>> /\ c0' = <<>>
    /\ UNCHANGED <<entry, tape, argnum, h, order, n, form, shifts, coeffs,
                   stencil, todo, err, results, grads, start, res, res_bound,
                   pos, jac>>

\* lines 172-176 (the zero shift), and the iterator of line 180; the
\* arguments argnum and h, first read here, are drawn here
FdZeroShift ==
    /\ pc = "fd_zero"
    /\ IF \E i \in 1..Len(shifts) : shifts[i] = 0
       THEN /\ c0' = Head(coeffs)
            /\ gradient_tapes' = Append(gradient_tapes, [params |-> tape.params, copy |-> FALSE])
            /\ shifts' = Tail(shifts)
            /\ coeffs' = Tail(coeffs)
       ELSE UNCHANGED <<c0, gradient_tapes, shifts, coeffs>>
    /\ \E a \in ArgnumInputs(Len(tape.params)), hh \in HValues :
          /\ argnum' = a /\ h' = hh
          /\ todo' = choose_params_with_methods(grad_method_validation(tape), a)
    /\ pc' = "fd_loop"
    /\ UNCHANGED <<entry, tape, order, n, form, stencil, shapes, degenerate,
                   err, results, grads, start, res, res_bound, pos, jac>>

\* lines 180-187: one iteration
FdLoop ==
    /\ pc = "fd_loop" /\ todo # <<>>
    /\ LET t_idx == Head(todo)[1]
           dm == Head(todo)[2]
           g_tapes == generate_shifted_tapes(tape, t_idx, ScaleShifts(shifts, h))
       IN  IF dm = "0"
           THEN /\ shapes' = Append(shapes, 0)
                /\ UNCHANGED gradient_tapes
           ELSE /\ gradient_tapes' = gradient_tapes \o g_tapes
                /\ shapes' = Append(shapes, Len(g_tapes))
    /\ todo' = Tail(todo)
    /\ UNCHANGED <<pc, entry, tape, argnum, h, order, n, form, shifts, coeffs,
                   stencil, c0, degenerate, err, results, grads, start, res,
                   res_bound, pos, jac>>

\* line 223
FdReturn ==
    /\ pc = "fd_loop" /\ todo = <<>>
    /\ pc' = "fd_returned"
    /\ UNCHANGED <<entry, tape, argnum, h, order, n, form, shifts, coeffs,
                   stencil, c0, gradient_tapes, shapes, todo, degenerate, err,
                   results, grads, start, res, res_bound, pos, jac>>

\* the caller executes the returned batch: one result per program, in order
ExecuteBatch ==
    /\ pc = "fd_returned"
    /\ \E dev \in Devices :
          results' = [i \in 1..Len(gradient_tapes) |->
                         RunTape(dev, gradient_tapes[i], tape.output_dim)]
    /\ pc' = "pf_call"
    /\ UNCHANGED <<entry, tape, argnum, h, order, n, form, shifts, coeffs,
                   stencil, c0, gradient_tapes, shapes, todo, degenerate, err,
                   grads, start, res, res_bound, pos, jac>>

\* line 164: the post-processing function of the degenerate case
PfDegenerate ==
    /\ pc = "pf_call" /\ degenerate
    /\ jac' = ZeroMatrix(tape.output_dim, Len(tape.params))
    /\ pc' = "pf_done"
    /\ UNCHANGED <<entry, tape, argnum, h, order, n, form, shifts, coeffs,
                   stencil, c0, gradient_tapes, shapes, todo, degenerate, err,
                   results, grads, start, res, res_bound, pos>>

\* lines 190-191
PfBegin ==
    /\ pc = "pf_call" /\ ~degenerate
    /\ grads' = <<>> /\ start' = FirstStart(c0) /\ pos' = 0
    /\ pc' = "pf_loop"
    /\ UNCHANGED <<entry, tape, argnum, h, order, n, form, shifts, coeffs,
                   stencil, c0, gradient_tapes, shapes, todo, degenerate, err,
                   results, res, res_bound, jac>>

\* lines 193-209: one iteration
PfLoop ==
    /\ pc = "pf_loop" /\ pos < Len(shapes)
    /\ LET s == shapes[pos + 1] IN
       IF s = 0
       THEN /\ grads' = Append(grads, VZero(tape.output_dim))
            /\ UNCHANGED <<start, res, res_bound>>
       ELSE /\ res' = Slice(results, start, start + s)
            /\ res_bound' = TRUE
            /\ start' = NextStart(start, s)
            /\ grads' = Append(grads, ParamGrad(results, start, s, coeffs, c0, h,
                                                Val(n), tape.output_dim))
    /\ pos' = pos + 1
    /\ UNCHANGED <<pc, entry, tape, argnum, h, order, n, form, shifts, coeffs,
                   stencil, c0, gradient_tapes, shapes, todo, degenerate, err,
                   results, jac>>

\* lines 216-221: the loop over grads reads res[0], then the stacked and
\* transposed gradients are returned
PfFinish ==
    /\ pc = "pf_loop" /\ pos = Len(shapes)
    /\ IF grads # <<>> /\ ~res_bound
       THEN /\ pc' = "raised" /\ err' = "UnboundLocalError" /\ jac' = jac
       ELSE IF grads = <<>>
       THEN /\ pc' = "raised" /\ err' = "ValueError" /\ jac' = jac
       ELSE /\ pc' = "pf_done" /\ err' = err /\ jac' = TransposeStack(grads)
    /\ UNCHANGED <<entry, tape, argnum, h, order, n, form, shifts, coeffs,
                   stencil, c0, gradient_tapes, shapes, todo, degenerate,
                   results, grads, start, res, res_bound, pos>>

(***************************************************************************)
(* batch_vjp, step by step                                                 *)
(***************************************************************************)
\* gradient_fn(tape t, parameter idx) returns (g_tapes, fn).  The number of
\* tapes is a function of the pair; the k-th of them is <<t, idx, k>> and
\* fn is known by the pair <<t, idx>> it was made for.
GfnCounts == {<<a, b, c>> : a \in 0..MaxCallTapes, b \in 0..MaxCallTapes, c \in 0..MaxCallTapes}
GfnLen(g, tt, ii) == (g[1] * tt + g[2] * ii + g[3]) % (MaxCallTapes + 1)
gradient_fn(g, tt, ii) ==
    [g_tapes |-> [k \in 1..GfnLen(g, tt, ii) |-> <<tt, ii, k>>], fn |-> <<tt, ii>>]

\* execute_fn: one result per submitted tape, in submission order
execute_fn(batch) == [i \in 1..Len(batch) |-> [of |-> batch[i]]]

\* a post-processing function applied to a slice of the results: a scalar,
\* or a vector of d components
ApplyFn(fn, r, d) ==
    IF d = 0 THEN [fn |-> fn, res |-> r]
    ELSE [k \in 1..d |-> [fn |-> fn, res |-> r, comp |-> k]]

\* the cotangent of program j (a 1 x 2 matrix), and reshape(d, [-1])
Cotangent(j) == <<<<10 * j + 1, 10 * j + 2>>>>
RECURSIVE Flatten(_)
Flatten(m) == IF m = <<>> THEN <<>> ELSE Head(m) \o Flatten(Tail(m))

\* line 101: transpose(stack(jac)); the stack of scalars is a vector, which
\* transpose leaves alone; the stack of vectors of d components is a
\* (len(jac), d) matrix, transposed to (d, len(jac))
StackTranspose(js, d) ==
    IF d = 0 THEN js
    ELSE [k \in 1..d |-> [i \in 1..Len(js) |-> js[i][k]]]

\* line 102: reshape(jac, [-1, num_params]), row-major
Reshape(x, d, num_params) ==
    LET flat == IF d = 0 THEN x ELSE Flatten(x)
    IN  [r \in 1..(Len(flat) \div num_params) |->
            SubSeq(flat, (r - 1) * num_params + 1, r * num_params)]

\* vjp_fn(vjps, dy_row, jac) appends the contraction of dy_row with jac
NoneVjp == [none |-> TRUE, dy_row |-> <<>>, jac |-> <<>>]
vjp_fn(out, dy_row, jacobian) ==
    Append(out, [none |-> FALSE, dy_row |-> dy_row, jac |-> jacobian])

Event(kind, tt, ii, arg) == [kind |-> kind, t |-> tt, idx |-> ii, arg |-> arg]

\* mutant of ExtendBatch: the batch is overwritten, not extended
ExtendBatch_overwrite(batch, g_tapes) == g_tapes

\* line 77
ExtendBatch(batch, g_tapes) == batch \o g_tapes

\* lines 92-98: for fn, res_len in zip(processing_fns[t], reshape_info);
\* the result is [jac, start, calls]
RECURSIVE ZipLoop(_, _, _, _, _)
ZipLoop(fns, info, d, rs, acc) ==
    IF fns = <<>> \/ info = <<>> THEN acc
    ELSE LET res_len == Head(info)
             r == Slice(rs, acc.start, acc.start + res_len)
         IN  ZipLoop(Tail(fns), Tail(info), d, rs,
                     [jac |-> Append(acc.jac, ApplyFn(Head(fns), r, d)),
                      start |-> acc.start + res_len,
                      calls |-> Append(acc.calls,
                                       Event("fn", Head(fns)[1], Head(fns)[2], r))])

TapeLists ==
    UNION {[1..k -> 0..MaxVjpParams] : k \in 0..MaxTapes}

\* a call batch_vjp(dy, tapes, execute_fn, gradient_fn, vjp_fn), with as
\* many cotangents as programs
BvInit ==
    /\ entry = "batch_vjp" /\ pc = "bv_outer"
    /\ tape = NoTape /\ n = PyInt(1) /\ order = PyInt(1) /\ form = "forward"
    /\ FdLocalsInitOnly /\ UwIdle
    /\ tapes \in TapeLists
    /\ dy = [j \in 1..Len(tapes) |-> Cotangent(j)]
    /\ gfn \in GfnCounts
    /\ fn_shape \in 0..MaxOutDim
    \* lines 66-68
    /\ reshape_info = <<>> /\ gradient_tapes = <<>> /\ processing_fns = <<>>
    /\ results = <<>> /\ vjps = <<>> /\ start = 0
    /\ t = 0 /\ idx = 0 /\ calls = <<>>

fdOnly == <<tape, argnum, h, order, n, form, shifts, coeffs, stencil, c0, shapes,
            todo, degenerate, grads, res, res_bound, pos, jac>>

\* lines 70-71: the next program
BvOuter ==
    /\ pc = "bv_outer" /\ t < Len(tapes)
    /\ processing_fns' = Append(processing_fns, <<>>)
    /\ idx' = 0
    /\ pc' = "bv_inner"
    /\ UNCHANGED <<entry, err, gradient_tapes, results, start, tapes, dy, gfn, fn_shape,
                   reshape_info, vjps, t, calls, fdOnly, uwVars>>

\* lines 73-78: one call of gradient_fn
BvGradCall ==
    /\ pc = "bv_inner" /\ idx < tapes[t + 1]
    /\ LET g == gradient_fn(gfn, t, idx) IN
          /\ reshape_info' = Append(reshape_info, Len(g.g_tapes))
          /\ gradient_tapes' = ExtendBatch(gradient_tapes, g.g_tapes)
          /\ processing_fns' =
                [processing_fns EXCEPT ![Len(processing_fns)] = Append(@, g.fn)]
          /\ calls' = Append(calls, Event("gradient_fn", t, idx, g.g_tapes))
    /\ idx' = idx + 1
    /\ UNCHANGED <<pc, entry, err, results, start, tapes, dy, gfn, fn_shape, vjps, t,
                   fdOnly, uwVars>>

\* the inner loop of line 73 is exhausted
BvInnerDone ==
    /\ pc = "bv_inner" /\ idx = tapes[t + 1]
    /\ t' = t + 1 /\ idx' = 0
    /\ pc' = "bv_outer"
    /\ UNCHANGED <<entry, err, gradient_tapes, results, start, tapes, dy, gfn, fn_shape,
                   reshape_info, processing_fns, vjps, calls, fdOnly, uwVars>>

\* lines 80-82
BvExecute ==
    /\ pc = "bv_outer" /\ t = Len(tapes)
    /\ results' = execute_fn(gradient_tapes)
    /\ calls' = Append(calls, Event("execute_fn", 0, 0, gradient_tapes))
    /\ vjps' = <<>> /\ start' = 0
    /\ t' = 0
    /\ pc' = "bv_vjp"
    /\ UNCHANGED <<entry, err, gradient_tapes, tapes, dy, gfn, fn_shape, reshape_info,
                   processing_fns, idx, fdOnly, uwVars>>

\* lines 84-103: one iteration of for t, d in zip(range(len(tapes)), dy)
BvVjp ==
    /\ pc = "bv_vjp" /\ t < Len(tapes) /\ t < Len(dy)
    /\ LET num_params == tapes[t + 1]
           d == dy[t + 1]
           lp == ZipLoop(processing_fns[t + 1], reshape_info, fn_shape, results,
                         [jac |-> <<>>, start |-> start, calls |-> calls])
           stacked == StackTranspose(lp.jac, fn_shape)
       IN  IF num_params = 0
           THEN /\ vjps' = Append(vjps, NoneVjp)
                /\ UNCHANGED <<start, calls>>
           ELSE /\ start' = lp.start
                /\ calls' = lp.calls
                /\ vjps' = vjp_fn(vjps, Flatten(d),
                                 Reshape(stacked, fn_shape, num_params))
    /\ t' = t + 1
    /\ UNCHANGED <<pc, entry, err, gradient_tapes, results, tapes, dy, gfn, fn_shape,
                   reshape_info, processing_fns, idx, fdOnly, uwVars>>

\* line 105
BvReturn ==
    /\ pc = "bv_vjp" /\ (t = Len(tapes) \/ t = Len(dy))
    /\ pc' = "bv_done"
    /\ UNCHANGED <<entry, err, gradient_tapes, results, start, bvVars, fdOnly,
                   uwVars>>

(***************************************************************************)
(* UnwrapTape                                                              *)
(***************************************************************************)
\* a parameter is <<kind, value>>: a framework tensor "tf" or a NumPy value
ParamValues == {<<"tf", 1>>, <<"tf", 2>>, <<"np", 1>>}
ParamLists == UNION {[1..k -> ParamValues] : k \in 0..MaxWrapped}

UnwrapFns == {"numpy", "float"}
\* unwrap_fn(params): "numpy" turns every tensor into a NumPy value,
\* "float" turns every parameter into a Python float
ApplyUnwrap(f, ps) ==
    [i \in 1..Len(ps) |->
        IF f = "numpy" THEN <<"np", ps[i][2]>> ELSE <<"float", ps[i][2]>>]

\* trainable_fn(tape): the indices of the tensors, and the tape's current
\* full parameter list
trainable_fn(tp) ==
    [trainable |-> {i \in 1..Len(tp.params) : tp.params[i][1] = "tf"} ,
     params |-> tp.params]

\* tape.set_parameters(params, trainable_only=False)
set_parameters(tp, ps) == [tp EXCEPT !.params = ps]

\* lines 47-53
NewUnwrapTape == [_original_params |-> <<>>, _unwrapped_params |-> <<>>]

\* mutant of ExitParams: the unwrapped parameters are written back
ExitParams_unwrapped(o) == o._unwrapped_params

\* line 62: what __exit__ writes back
ExitParams(o) == o._original_params

UwInit ==
    /\ entry = "UnwrapTape" /\ pc = "with"
    /\ tape = NoTape /\ n = PyInt(1) /\ order = PyInt(1) /\ form = "forward"
    /\ gradient_tapes = <<>> /\ results = <<>> /\ start = 0
    /\ FdLocalsInitOnly /\ BvIdle
    /\ utape \in {[params |-> ps, trainable_params |-> {}] : ps \in ParamLists}
    /\ unwrap_fn \in UnwrapFns
    /\ objs = [o \in 1..MaxDepth |-> NewUnwrapTape]
    /\ active = <<>> /\ raising = FALSE
    /\ snaps = <<>> /\ lastop = "" /\ popped = utape.params

\* the open blocks that use object o are marked: o is entered again
MarkReused(s, act, o) ==
    [k \in 1..Len(s) |-> IF act[k] = o THEN [s[k] EXCEPT !.reused = TRUE] ELSE s[k]]

\* lines 55-59: with u as ...: on any of the objects, in use or not; the
\* nesting depth is capped at MaxNest
UwEnter(o) ==
    /\ pc = "with" /\ ~raising
    /\ Len(active) < MaxNest
    /\ LET tf == trainable_fn(utape)
           unwrapped == ApplyUnwrap(unwrap_fn, tf.params)
       IN  /\ objs' = [objs EXCEPT ![o] = [_original_params |-> tf.params,
                                          _unwrapped_params |-> unwrapped]]
           /\ utape' = set_parameters([utape EXCEPT !.trainable_params = tf.trainable],
                                      unwrapped)
    /\ active' = Append(active, o)
    /\ snaps' = Append(MarkReused(snaps, active, o),
                       [params |-> utape.params, reused |-> FALSE])
    /\ lastop' = "enter"
    /\ UNCHANGED <<pc, entry, err, gradient_tapes, results, start, unwrap_fn,
                   raising, popped, fdOnly, bvVars>>

\* the body of the innermost block raises
UwRaise ==
    /\ pc = "with" /\ active # <<>> /\ ~raising
    /\ raising' = TRUE
    /\ UNCHANGED <<pc, entry, err, gradient_tapes, results, start, utape,
                   unwrap_fn, objs, active, snaps, lastop, popped, fdOnly, bvVars>>

\* lines 61-62: the innermost block is left, normally or by the exception;
\* __exit__ returns None, so the exception goes on
UwExit ==
    /\ pc = "with" /\ active # <<>>
    /\ LET o == active[Len(active)] IN
          utape' = set_parameters(utape, ExitParams(objs[o]))
    /\ active' = SubSeq(active, 1, Len(active) - 1)
    /\ popped' = snaps[Len(snaps)].params
    /\ snaps' = SubSeq(snaps, 1, Len(snaps) - 1)
    /\ lastop' = IF snaps[Len(snaps)].reused THEN "exit_reused" ELSE "exit"
    /\ UNCHANGED <<pc, entry, err, gradient_tapes, results, start, unwrap_fn,
                   objs, raising, fdOnly, bvVars>>

\* the exception is caught by the code around the block just left
UwCatch ==
    /\ pc = "with" /\ raising /\ lastop \in {"exit", "exit_reused"}
    /\ raising' = FALSE
    /\ UNCHANGED <<pc, entry, err, gradient_tapes, results, start, utape,
                   unwrap_fn, objs, active, snaps, lastop, popped, fdOnly, bvVars>>

(***************************************************************************)
(* The specifications: one call of each function.                          *)
(***************************************************************************)
StencilNext == (StCheck \/ StSolve \/ StClean) /\ UNCHANGED <<bvVars, uwVars>>

FdNext ==
    /\ \/ FdValidate \/ StCheck \/ StSolve \/ StClean \/ FdZeroShift \/ FdLoop
       \/ FdReturn \/ ExecuteBatch \/ PfDegenerate \/ PfBegin \/ PfLoop \/ PfFinish
    /\ UNCHANGED <<bvVars, uwVars>>

BvNext == BvOuter \/ BvGradCall \/ BvInnerDone \/ BvExecute \/ BvVjp \/ BvReturn

UwNext == (\E o \in 1..MaxDepth : UwEnter(o)) \/ UwRaise \/ UwExit \/ UwCatch

SpecStencil == StencilInit /\ [][StencilNext]_vars
SpecFD == FdInit /\ [][FdNext]_vars
SpecVJP == BvInit /\ [][BvNext]_vars
SpecUnwrap == UwInit /\ [][UwNext]_vars

(***************************************************************************)
(* Properties of finite_diff_stencil and finite_diff.                      *)
(***************************************************************************)
\* what the documentation calls an invalid configuration
InvalidConfiguration ==
    \/ n.twice < 2 \/ ~n.isint
    \/ order.twice < 2 \/ ~order.isint
    \/ form \notin {"forward", "backward", "center"}
    \/ (form = "center" /\ order.twice % 4 # 0)

\* the k-th moment of a stencil: the sum of coefficient[i] * shift[i]^k
RECURSIVE Moment(_, _, _)
Moment(cs, ss, k) ==
    IF cs = <<>> THEN RZero
    ELSE RAdd(RMul(Head(cs), RInt(IPow(Head(ss), k))), Moment(Tail(cs), Tail(ss), k))

\* C9: for every valid (n, order, form) the call returns a stencil, the
\* moment index n lies inside the shift set, the n-th moment of the returned
\* stencil is n! and every other moment below the size of the shift set is 0.
Thm_C9 ==
    /\ (pc = "raised" => InvalidConfiguration)
    /\ (pc = "st_done" =>
          /\ ~InvalidConfiguration
          /\ Val(n) < Len(shifts)
          /\ Len(stencil.coeffs) = Len(stencil.shifts)
          /\ \A k \in 0..(Len(shifts) - 1) :
                Moment(stencil.coeffs, stencil.shifts, k)
                    = IF k = Val(n) THEN RInt(Factorial(Val(n))) ELSE RZero)

\* C9 witness: a centred second-order stencil was returned, and its
\* zero column was dropped
Wit_C9 ==
    /\ pc = "st_done" /\ form = "center" /\ Val(order) = 2
    /\ Len(stencil.shifts) < Len(shifts)

\* the stencil as the documentation reads it
HasZeroShift == \E i \in 1..Len(stencil.shifts) : stencil.shifts[i] = 0
ZeroOffset == IF HasZeroShift THEN 1 ELSE 0
NonZeroIdx == SelectSeq([i \in 1..Len(stencil.shifts) |-> i],
                        LAMBDA i : stencil.shifts[i] # 0)
ZeroCoeff == stencil.coeffs[CHOOSE i \in 1..Len(stencil.shifts) : stencil.shifts[i] = 0]

\* the selected trainable parameters (0-based), in parameter order
Selected ==
    IF argnum.none THEN [i \in 1..Len(tape.params) |-> i - 1] ELSE argnum.idx

\* where the sub-batch of the q-th selected parameter starts
Cursor(q) == ZeroOffset + ISum(SubSeq(shapes, 1, q - 1))

Returned == entry = "finite_diff" /\ pc \in {"fd_returned", "pf_call", "pf_loop", "pf_done"}

\* C4 as stated: an invalid configuration ends every call of finite_diff in
\* the configuration error, with no program built and nothing returned.
Orig_C4 ==
    (entry = "finite_diff" /\ InvalidConfiguration) =>
        /\ ~Returned
        /\ gradient_tapes = <<>> /\ shapes = <<>>
        /\ (pc = "raised" => err = CheckArgs(n, order, form))

\* C4 amended: on a program with a trainable parameter whose method is not
\* "0" an invalid configuration raises the configuration error before any
\* program is built and nothing is returned; on a degenerate program the
\* configuration is never looked at, and the empty batch and the all-zero
\* post-processing function are returned.
Thm_C4 ==
    (entry = "finite_diff" /\ InvalidConfiguration) =>
        /\ gradient_tapes = <<>> /\ shapes = <<>>
        /\ (\E i \in 1..Len(tape.methods) : tape.methods[i] # "0") =>
              /\ pc \in {"fd_start", "st_check", "raised"}
              /\ (pc = "raised" => err \notin {"", "IndexError", "LinAlgError",
                                               "UnboundLocalError", "ValueError"})
        /\ (\A i \in 1..Len(tape.methods) : tape.methods[i] = "0") =>
              /\ pc \in {"fd_start", "fd_returned", "pf_call", "pf_done"}
              /\ err = ""
              /\ (pc = "pf_done" =>
                    jac = [d \in 1..tape.output_dim |->
                              [j \in 1..Len(tape.params) |-> RZero]])

\* C4 witness: a centred stencil of odd order was asked for a program with an
\* enabled parameter, and the call ended in the error
Wit_C4 ==
    /\ entry = "finite_diff" /\ pc = "raised"
    /\ form = "center" /\ order = PyInt(1) /\ n = PyInt(1)
    /\ \E i \in 1..Len(tape.methods) : tape.methods[i] = "F"

\* C7: the batch of a non-degenerate call is the tape itself, once and
\* first, exactly when the stencil has a zero shift, then per selected
\* parameter in order one copy per non-zero shift (scaled by h) if it is
\* enabled and nothing if it is disabled; shapes holds the sub-batch lengths.
Thm_C7 ==
    (Returned /\ ~degenerate) =>
        /\ Cardinality({i \in 1..Len(gradient_tapes) : ~gradient_tapes[i].copy}) = ZeroOffset
        /\ (HasZeroShift =>
              gradient_tapes[1] = [params |-> tape.params, copy |-> FALSE])
        /\ Len(shapes) = Len(Selected)
        /\ Len(gradient_tapes) = ZeroOffset + ISum(shapes)
        /\ \A q \in 1..Len(Selected) :
              IF tape.methods[Selected[q] + 1] = "0"
              THEN shapes[q] = 0
              ELSE /\ shapes[q] = Len(NonZeroIdx)
                   /\ \A i \in 1..Len(NonZeroIdx) :
                         LET prog == gradient_tapes[Cursor(q) + i]
                             sh == RMul(RInt(stencil.shifts[NonZeroIdx[i]]), h)
                         IN  /\ prog.copy
                             /\ \A j \in 1..Len(tape.params) :
                                   prog.params[j] =
                                      IF j = Selected[q] + 1
                                      THEN RAdd(tape.params[j], sh)
                                      ELSE tape.params[j]

\* C7 witness: a returned batch with the unshifted tape, a disabled and an
\* enabled selected parameter
Wit_C7 ==
    /\ pc = "fd_returned" /\ ~degenerate /\ HasZeroShift
    /\ Len(shapes) = 2 /\ shapes[1] = 0 /\ shapes[2] > 1

\* the weighted sum of the claim, written out over the results
RECURSIVE ClaimSum(_, _, _)
ClaimSum(ix, cur, m) ==
    IF ix = <<>> THEN [d \in 1..m |-> RZero]
    ELSE LET c == stencil.coeffs[Head(ix)]
             r == results[cur + 1]
             rest == ClaimSum(Tail(ix), cur + 1, m)
         IN  [d \in 1..m |-> RAdd(RMul(c, r[d]), rest[d])]

ClaimGrad(q) ==
    LET sm == ClaimSum(NonZeroIdx, Cursor(q), tape.output_dim)
        hn == RPow(h, Val(n))
    IN  [d \in 1..tape.output_dim |->
            RDiv(IF HasZeroShift
                 THEN RAdd(sm[d], RMul(ZeroCoeff, results[1][d]))
                 ELSE sm[d], hn)]

\* C5: given one result per program of the batch, the gradient of every
\* selected enabled parameter q is (sum of coeffs[i] * results[cursor_q + i]
\* + c0 * results[0]) / h^n with cursor_q = (1 if zero shift) + the shapes
\* before q; every result but results[0] belongs to exactly one parameter,
\* and the cursor ends at the length of the batch.
Thm_C5 ==
    (entry = "finite_diff" /\ ~degenerate /\ pc \in {"pf_loop", "pf_done"}) =>
        /\ Len(results) = Len(gradient_tapes)
        /\ Len(grads) = pos
        /\ start = Cursor(pos + 1)
        /\ \A q \in 1..pos : shapes[q] # 0 => grads[q] = ClaimGrad(q)
        /\ \A r \in (ZeroOffset + 1)..Len(results) :
              Cardinality({q \in 1..Len(shapes) :
                              Cursor(q) < r /\ r <= Cursor(q) + shapes[q]}) = 1
        /\ (pos = Len(shapes) => start = Len(gradient_tapes))
        /\ (pc = "pf_done" =>
              \A q \in 1..Len(shapes) : shapes[q] # 0 =>
                  \A d \in 1..tape.output_dim : jac[d][q] = ClaimGrad(q)[d])

\* C5 witness: a Jacobian was returned for two enabled parameters and a
\* stencil with a zero shift
Wit_C5 ==
    /\ pc = "pf_done" /\ ~degenerate /\ HasZeroShift
    /\ Len(shapes) = 2 /\ shapes[1] > 0 /\ shapes[2] > 0
    /\ jac[1][1] # jac[1][2]

\* the post-processing function of a non-degenerate call has ended
PfEnded ==
    /\ entry = "finite_diff" /\ ~degenerate
    /\ \/ pc = "pf_done"
       \/ pc = "raised" /\ err \in {"UnboundLocalError", "ValueError"}

\* C6 as stated: the post-processing function of a non-degenerate call
\* returns a Jacobian whose column for every selected disabled parameter is
\* the zero vector of length output_dim, also when every selected parameter
\* is disabled.
Claim_C6 ==
    (PfEnded /\ Len(shapes) > 0) =>
        /\ pc = "pf_done"
        /\ Len(jac) = tape.output_dim
        /\ \A q \in 1..Len(shapes) : shapes[q] = 0 =>
              \A d \in 1..tape.output_dim : jac[d][q] = RZero

\* C8 as stated: the matrix the post-processing function returns has shape
\* (output_dim, number of trainable parameters), for every argnum.
Claim_C8 ==
    (entry = "finite_diff" /\ pc = "pf_done") =>
        /\ Len(jac) = tape.output_dim
        /\ \A d \in 1..Len(jac) : Len(jac[d]) = Len(tape.params)

(***************************************************************************)
(* Properties of batch_vjp.                                                *)
(***************************************************************************)
RECURSIVE ConcatAll(_)
ConcatAll(ss) == IF ss = <<>> THEN <<>> ELSE Head(ss) \o ConcatAll(Tail(ss))

\* the (program, parameter position) pairs, program by program (0-based)
PairSeq ==
    ConcatAll([p \in 1..Len(tapes) |-> [i \in 1..tapes[p] |-> <<p - 1, i - 1>>]])

\* the results of the tapes the call gradient_fn(p, i) contributed
OwnResults(p, i) == [k \in 1..GfnLen(gfn, p, i) |-> [of |-> <<p, i, k>>]]

\* where those tapes start in the flat batch
OwnOffset(p, i) ==
    ISum([q \in 1..Len(PairSeq) |->
             IF PairSeq[q][1] < p \/ (PairSeq[q][1] = p /\ PairSeq[q][2] < i)
             THEN GfnLen(gfn, PairSeq[q][1], PairSeq[q][2]) ELSE 0])

FnCalls(p, i) ==
    {k \in 1..Len(calls) : calls[k].kind = "fn" /\ calls[k].t = p /\ calls[k].idx = i}

\* C1 as stated: the post-processing function of (program p, position i) is
\* applied to exactly the slice of the flat results that belongs to the
\* tapes gradient_fn(p, i) contributed, for every program with a trainable
\* parameter.
Claim_C1 ==
    (entry = "batch_vjp" /\ pc = "bv_done") =>
        \A q \in 1..Len(PairSeq) :
            LET p == PairSeq[q][1]
                i == PairSeq[q][2]
            IN  /\ Cardinality(FnCalls(p, i)) = 1
                /\ \A k \in FnCalls(p, i) :
                      /\ calls[k].arg = OwnResults(p, i)
                      /\ calls[k].arg = Slice(results, OwnOffset(p, i),
                                              OwnOffset(p, i) + GfnLen(gfn, p, i))

\* the Jacobian of program j (1-based): one column per trainable parameter,
\* holding what its post-processing function gives on its own results; one
\* row for scalar gradients, one row per component otherwise
OwnJacobian(j) ==
    IF fn_shape = 0
    THEN <<[i \in 1..tapes[j] |->
               [fn |-> <<j - 1, i - 1>>, res |-> OwnResults(j - 1, i - 1)]]>>
    ELSE [k \in 1..fn_shape |->
             [i \in 1..tapes[j] |->
                 [fn |-> <<j - 1, i - 1>>, res |-> OwnResults(j - 1, i - 1),
                  comp |-> k]]]

\* C2 as stated: the call returns one entry per program, in order; the entry
\* is None exactly for the programs without trainable parameters and
\* otherwise the contraction of the program's own flattened cotangent with
\* the program's Jacobian.
Claim_C2 ==
    (entry = "batch_vjp" /\ pc = "bv_done") =>
        /\ Len(vjps) = Len(tapes)
        /\ \A j \in 1..Len(tapes) :
              /\ vjps[j].none <=> tapes[j] = 0
              /\ ~vjps[j].none =>
                    /\ vjps[j].dy_row = <<10 * j + 1, 10 * j + 2>>
                    /\ vjps[j].jac = OwnJacobian(j)

ExecuteCalls == {k \in 1..Len(calls) : calls[k].kind = "execute_fn"}

\* C3: execute_fn is called exactly once per call of batch_vjp, after every
\* gradient_fn call (one per pair, program by program) and before every
\* post-processing call, with the concatenation of the tapes of all
\* gradient_fn calls in their order; its length is the sum of reshape_info.
Thm_C3 ==
    entry = "batch_vjp" =>
        /\ Cardinality(ExecuteCalls) <= 1
        /\ (pc \in {"bv_vjp", "bv_done"} <=> ExecuteCalls # {})
        /\ (ExecuteCalls = {} => \A m \in 1..Len(calls) : calls[m].kind = "gradient_fn")
        /\ \A k \in ExecuteCalls :
              /\ k = Len(PairSeq) + 1
              /\ \A m \in 1..(k - 1) :
                    /\ calls[m].kind = "gradient_fn"
                    /\ <<calls[m].t, calls[m].idx>> = PairSeq[m]
              /\ \A m \in (k + 1)..Len(calls) : calls[m].kind = "fn"
              /\ calls[k].arg = ConcatAll([m \in 1..(k - 1) |-> calls[m].arg])
              /\ Len(reshape_info) = k - 1
              /\ \A m \in 1..(k - 1) : reshape_info[m] = Len(calls[m].arg)
              /\ Len(calls[k].arg) = ISum(reshape_info)

\* C3 witness: a finished call on two programs whose gradient_fn calls gave
\* different numbers of tapes, and that applied a post-processing function
Wit_C3 ==
    /\ entry = "batch_vjp" /\ pc = "bv_done" /\ Len(tapes) = 2
    /\ \E a, b \in 1..Len(reshape_info) : reshape_info[a] # reshape_info[b]
    /\ \E m \in 1..Len(calls) : calls[m].kind = "fn"
    /\ Len(gradient_tapes) >= 3

(***************************************************************************)
(* Properties of UnwrapTape.                                               *)
(***************************************************************************)
\* C10: inside a block the tape's full parameter list is unwrap_fn of the
\* list it had when the block was entered; after a block is left, normally
\* or by an exception, it is again the list it had when that block was
\* entered, also for nested blocks of distinct UnwrapTape objects (a block
\* whose object was entered again while it was open is not covered).
Thm_C10 ==
    entry = "UnwrapTape" =>
        /\ (lastop = "enter" =>
              utape.params = ApplyUnwrap(unwrap_fn, snaps[Len(snaps)].params))
        /\ (active # <<>> =>
              utape.params = ApplyUnwrap(unwrap_fn, snaps[Len(snaps)].params))
        /\ (lastop = "exit" => utape.params = popped)
        /\ ((active = <<>> /\ lastop # "exit_reused") => utape.params = popped)

\* C10 witness: the outer of two nested blocks of distinct objects on a tape
\* with a tensor parameter was left by an exception; the inner object was
\* entered on the unwrapped list
Wit_C10 ==
    /\ entry = "UnwrapTape" /\ lastop = "exit" /\ raising /\ active = <<>>
    /\ \E i \in 1..Len(utape.params) : utape.params[i][1] = "tf"
    /\ \E o1, o2 \in 1..Len(objs) :
          /\ o1 # o2
          /\ objs[o1]._original_params = utape.params
          /\ objs[o2]._original_params = objs[o1]._unwrapped_params
          /\ objs[o2]._unwrapped_params # <<>>
====
